---- MODULE Spec2Model ----
(***************************************************************************)
(* The wagered tic-tac-toe application of                                  *)
(* src/src/smart_contracts/tic_tac_toe_asc1.py, as a state machine over    *)
(* the application's global state.  One step is one application call (the  *)
(* first transaction of an atomic group) or one advance of the ledger      *)
(* clock.  An Assert that fails, an arithmetic underflow, a Cond without a *)
(* true branch and a Return(Int(0)) all reject the whole group: the global *)
(* state is left as it was, so a rejected call is a stuttering step, and   *)
(* what the program answers to a call in a state is Outcome(call).         *)
(***************************************************************************)
EXTENDS Integers, Sequences, FiniteSets, TLC

VARIABLES
    global,            \* the application's global key/value state
    latest_timestamp,  \* Global.latest_timestamp(), the ledger clock
    log,               \* history: what the approved calls so far were
    state,             \* argument of has_player_won (function check)
    result             \* its answer, Pending until computed

vars == <<global, latest_timestamp, log, state, result>>

(***************************************************************************)
(* Program constants.                                                      *)
(***************************************************************************)
DefaultBetAmount == 1000000

GameDurationInSeconds == 3600

WINING_STATES == <<448, 56, 7, 292, 146, 73, 273, 84>>

(***************************************************************************)
(* Inputs.  Accounts are the identities that sign transactions; Unset is   *)
(* what a global key that was never written reads as.                      *)
(***************************************************************************)
Unset == "unset"

Accounts == {"A", "B", "E"}

Times == {0, GameDurationInSeconds, GameDurationInSeconds + 1}

\* The times at which a setup bundle is submitted.
SetupTimes == {0, GameDurationInSeconds + 1}

MaxArg == 9

Args == 0..MaxArg

MaxRefunds == 2

FullBoard == 511

Pending == <<>>

GroupSizes == {1, 2}

ZeroAddress == "zero"

AppId == "app"

LogicSigAccount == "E"

NoTxn ==
    [type |-> "none", sender |-> Unset, receiver |-> Unset, amount |-> 0,
     fee |-> 0, asset_close_to |-> ZeroAddress, rekey_to |-> ZeroAddress]

Pay(s, r, a) ==
    [type |-> "pay", sender |-> s, receiver |-> r, amount |-> a,
     fee |-> 1000, asset_close_to |-> ZeroAddress, rekey_to |-> ZeroAddress]

Amounts == {DefaultBetAmount, 2 * DefaultBetAmount}

SetupGtxn1 ==
    {Pay("A", "E", a) : a \in Amounts}
        \cup {NoTxn, [Pay("A", "E", DefaultBetAmount) EXCEPT !.type = "appl"]}

SetupGtxn2 ==
    {NoTxn, Pay("B", "E", DefaultBetAmount), Pay("A", "E", DefaultBetAmount),
     Pay("B", "B", DefaultBetAmount), Pay("B", "E", 2 * DefaultBetAmount),
     [Pay("B", "E", DefaultBetAmount) EXCEPT !.type = "appl"]}

RefundGtxn1 ==
    {Pay(s, r, a) : s \in {"E", "A"}, r \in {"A", "B"}, a \in Amounts}
        \cup {NoTxn, [Pay("E", "A", 2 * DefaultBetAmount) EXCEPT !.type = "appl"]}

RefundGtxn2 ==
    {NoTxn, Pay("E", "B", DefaultBetAmount), Pay("E", "A", DefaultBetAmount),
     Pay("A", "B", DefaultBetAmount), Pay("E", "B", 2 * DefaultBetAmount),
     [Pay("E", "B", DefaultBetAmount) EXCEPT !.type = "appl"]}

(***************************************************************************)
(* uint64 operators of the AVM on the 9-bit values the board uses.         *)
(***************************************************************************)
RECURSIVE BitwiseAnd(_, _)
BitwiseAnd(a, b) ==
    IF a = 0 \/ b = 0 THEN 0
    ELSE (a % 2) * (b % 2) + 2 * BitwiseAnd(a \div 2, b \div 2)

RECURSIVE BitwiseOr(_, _)
BitwiseOr(a, b) ==
    IF a = 0 THEN b
    ELSE IF b = 0 THEN a
    ELSE (IF a % 2 = 1 \/ b % 2 = 1 THEN 1 ELSE 0) + 2 * BitwiseOr(a \div 2, b \div 2)

ShiftLeft(a, n) == a * (2 ^ n)

(***************************************************************************)
(* Outcome of one application call.                                        *)
(***************************************************************************)
Approve(g) == [ok |-> TRUE, err |-> "none", global |-> g]

Reject(g, e) == [ok |-> FALSE, err |-> e, global |-> g]

hasValue(v) == v # Unset

(***************************************************************************)
(* app_initialization_logic: the global state the creating call leaves.    *)
(* Keys it does not write read as 0 (integers) or as Unset (addresses).    *)
(***************************************************************************)
app_initialization_logic_with_creator ==
    [PlayerXState |-> 0, PlayerOState |-> 0, GameStatus |-> 0,
     BetAmount |-> DefaultBetAmount,
     PlayerXAddress |-> "A", PlayerOAddress |-> Unset,
     PlayerTurnAddress |-> "A", FundsEscrowAddress |-> Unset,
     ActionTimeout |-> 0]

app_initialization_logic ==
    [PlayerXState |-> 0,
     PlayerOState |-> 0,
     GameStatus |-> 0,
     BetAmount |-> DefaultBetAmount,
     PlayerXAddress |-> Unset,
     PlayerOAddress |-> Unset,
     PlayerTurnAddress |-> Unset,
     FundsEscrowAddress |-> Unset,
     ActionTimeout |-> 0]

(***************************************************************************)
(* initialize_players_logic                                                *)
(***************************************************************************)
setup_players_fixed_deadline(g, gtxn1, gtxn2, now) ==
    IF gtxn1.type # "pay" THEN Reject(g, "type1")
    ELSE IF gtxn2.type # "pay" THEN Reject(g, "type2")
    ELSE IF gtxn1.receiver # gtxn2.receiver THEN Reject(g, "receiver")
    ELSE IF gtxn1.amount # g.BetAmount THEN Reject(g, "amount1")
    ELSE IF gtxn2.amount # g.BetAmount THEN Reject(g, "amount2")
    ELSE Approve([g EXCEPT !.PlayerXAddress = gtxn1.sender,
                           !.PlayerOAddress = gtxn2.sender,
                           !.PlayerTurnAddress = gtxn1.sender,
                           !.FundsEscrowAddress = gtxn1.receiver,
                           !.ActionTimeout = GameDurationInSeconds])

setup_players_no_amount2(g, gtxn1, gtxn2, now) ==
    IF gtxn1.type # "pay" THEN Reject(g, "type1")
    ELSE IF gtxn2.type # "pay" THEN Reject(g, "type2")
    ELSE IF gtxn1.receiver # gtxn2.receiver THEN Reject(g, "receiver")
    ELSE IF gtxn1.amount # g.BetAmount THEN Reject(g, "amount1")
    ELSE Approve([g EXCEPT !.PlayerXAddress = gtxn1.sender,
                           !.PlayerOAddress = gtxn2.sender,
                           !.PlayerTurnAddress = gtxn1.sender,
                           !.FundsEscrowAddress = gtxn1.receiver,
                           !.ActionTimeout = now + GameDurationInSeconds])

setup_players_o_first(g, gtxn1, gtxn2, now) ==
    IF gtxn1.type # "pay" THEN Reject(g, "type1")
    ELSE IF gtxn2.type # "pay" THEN Reject(g, "type2")
    ELSE IF gtxn1.receiver # gtxn2.receiver THEN Reject(g, "receiver")
    ELSE IF gtxn1.amount # g.BetAmount THEN Reject(g, "amount1")
    ELSE IF gtxn2.amount # g.BetAmount THEN Reject(g, "amount2")
    ELSE Approve([g EXCEPT !.PlayerXAddress = gtxn1.sender,
                           !.PlayerOAddress = gtxn2.sender,
                           !.PlayerTurnAddress = gtxn2.sender,
                           !.FundsEscrowAddress = gtxn1.receiver,
                           !.ActionTimeout = now + GameDurationInSeconds])

setup_players(g, gtxn1, gtxn2, now) ==
    IF gtxn1.type # "pay" THEN Reject(g, "type1")
    ELSE IF gtxn2.type # "pay" THEN Reject(g, "type2")
    ELSE IF gtxn1.receiver # gtxn2.receiver THEN Reject(g, "receiver")
    ELSE IF gtxn1.amount # g.BetAmount THEN Reject(g, "amount1")
    ELSE IF gtxn2.amount # g.BetAmount THEN Reject(g, "amount2")
    ELSE Approve([g EXCEPT !.PlayerXAddress = gtxn1.sender,
                           !.PlayerOAddress = gtxn2.sender,
                           !.PlayerTurnAddress = gtxn1.sender,
                           !.FundsEscrowAddress = gtxn1.receiver,
                           !.ActionTimeout = now + GameDurationInSeconds])

initialize_players_logic_again(g, gtxn1, gtxn2, now) == setup_players(g, gtxn1, gtxn2, now)

initialize_players_logic_until_move(g, gtxn1, gtxn2, now) ==
    IF g.PlayerXState # 0 \/ g.PlayerOState # 0
    THEN Reject(g, "setup_failed")
    ELSE setup_players(g, gtxn1, gtxn2, now)

initialize_players_logic(g, gtxn1, gtxn2, now) ==
    IF hasValue(g.PlayerXAddress) \/ hasValue(g.PlayerOAddress)
    THEN Reject(g, "setup_failed")
    ELSE setup_players(g, gtxn1, gtxn2, now)

(***************************************************************************)
(* has_player_won, is_tie                                                  *)
(***************************************************************************)
has_player_won_exact(s) ==
    IF \E i \in 1..Len(WINING_STATES) : s = WINING_STATES[i] THEN 1 ELSE 0

has_player_won(s) ==
    IF \E i \in 1..Len(WINING_STATES) : BitwiseAnd(s, WINING_STATES[i]) = WINING_STATES[i]
    THEN 1 ELSE 0

is_tie_x_only(g) == FullBoard = g.PlayerXState

is_tie(g) == FullBoard = BitwiseOr(g.PlayerXState, g.PlayerOState)

(***************************************************************************)
(* play_action_logic                                                       *)
(***************************************************************************)
game_action_wide(arg) == ShiftLeft(1, 9 - arg)

game_action_plain(arg) == ShiftLeft(1, arg)

game_action(arg) == ShiftLeft(1, 8 - arg)

player_x_move_keep_turn(g, arg) ==
    LET g1 == [g EXCEPT !.PlayerXState = BitwiseOr(g.PlayerXState, game_action(arg))]
    IN  IF has_player_won(g1.PlayerXState) = 1 THEN [g1 EXCEPT !.GameStatus = 1]
        ELSE [g1 EXCEPT !.PlayerTurnAddress = g1.PlayerOAddress]

player_x_move_rolling(g, arg) ==
    LET g1 == [g EXCEPT !.PlayerXState = BitwiseOr(g.PlayerXState, game_action(arg))]
        g2 == IF has_player_won(g1.PlayerXState) = 1 THEN [g1 EXCEPT !.GameStatus = 1] ELSE g1
    IN  [g2 EXCEPT !.PlayerTurnAddress = g2.PlayerOAddress,
                   !.ActionTimeout = @ + GameDurationInSeconds]

player_x_move_joint_board(g, arg) ==
    LET g1 == [g EXCEPT !.PlayerXState = BitwiseOr(g.PlayerXState, game_action(arg))]
        g2 == IF has_player_won(BitwiseOr(g1.PlayerXState, g1.PlayerOState)) = 1
              THEN [g1 EXCEPT !.GameStatus = 1] ELSE g1
    IN  [g2 EXCEPT !.PlayerTurnAddress = g2.PlayerOAddress]

player_x_move(g, arg) ==
    LET g1 == [g EXCEPT !.PlayerXState = BitwiseOr(g.PlayerXState, game_action(arg))]
        g2 == IF has_player_won(g1.PlayerXState) = 1 THEN [g1 EXCEPT !.GameStatus = 1] ELSE g1
    IN  [g2 EXCEPT !.PlayerTurnAddress = g2.PlayerOAddress]

player_o_move_keep_turn(g, arg) ==
    LET g1 == [g EXCEPT !.PlayerOState = BitwiseOr(g.PlayerOState, game_action(arg))]
    IN  IF has_player_won(g1.PlayerOState) = 1 THEN [g1 EXCEPT !.GameStatus = 2]
        ELSE [g1 EXCEPT !.PlayerTurnAddress = g1.PlayerXAddress]

player_o_move(g, arg) ==
    LET g1 == [g EXCEPT !.PlayerOState = BitwiseOr(g.PlayerOState, game_action(arg))]
        g2 == IF has_player_won(g1.PlayerOState) = 1 THEN [g1 EXCEPT !.GameStatus = 2] ELSE g1
    IN  [g2 EXCEPT !.PlayerTurnAddress = g2.PlayerXAddress]

tie_check_never(g) == g

tie_check(g) == IF is_tie(g) THEN [g EXCEPT !.GameStatus = 3] ELSE g

play_action_asserts_any_cell(g, sender, arg, now) ==
    IF arg > 8 THEN "position"
    ELSE IF ~(now <= g.ActionTimeout) THEN "timeout"
    ELSE IF g.GameStatus # 0 THEN "status"
    ELSE IF sender # g.PlayerTurnAddress THEN "sender"
    ELSE "none"

play_action_asserts_own_cells(g, sender, arg, now) ==
    IF arg > 8 THEN "position"
    ELSE IF ~(now <= g.ActionTimeout) THEN "timeout"
    ELSE IF g.GameStatus # 0 THEN "status"
    ELSE IF sender # g.PlayerTurnAddress THEN "sender"
    ELSE IF ~(BitwiseAnd(g.PlayerXState, game_action(arg)) = 0) THEN "occupied"
    ELSE "none"

play_action_asserts_no_status(g, sender, arg, now) ==
    IF arg > 8 THEN "position"
    ELSE IF ~(now <= g.ActionTimeout) THEN "timeout"
    ELSE IF sender # g.PlayerTurnAddress THEN "sender"
    ELSE IF ~(BitwiseAnd(g.PlayerXState, game_action(arg)) = 0
              /\ BitwiseAnd(g.PlayerOState, game_action(arg)) = 0) THEN "occupied"
    ELSE "none"

play_action_asserts_any_sender(g, sender, arg, now) ==
    IF arg > 8 THEN "position"
    ELSE IF ~(now <= g.ActionTimeout) THEN "timeout"
    ELSE IF g.GameStatus # 0 THEN "status"
    ELSE IF ~(BitwiseAnd(g.PlayerXState, game_action(arg)) = 0
              /\ BitwiseAnd(g.PlayerOState, game_action(arg)) = 0) THEN "occupied"
    ELSE "none"

play_action_asserts_strict_deadline(g, sender, arg, now) ==
    IF arg > 8 THEN "position"
    ELSE IF ~(now < g.ActionTimeout) THEN "timeout"
    ELSE IF g.GameStatus # 0 THEN "status"
    ELSE IF sender # g.PlayerTurnAddress THEN "sender"
    ELSE IF ~(BitwiseAnd(g.PlayerXState, game_action(arg)) = 0
              /\ BitwiseAnd(g.PlayerOState, game_action(arg)) = 0) THEN "occupied"
    ELSE "none"

play_action_asserts(g, sender, arg, now) ==
    IF arg > 8 THEN "position"
    ELSE IF ~(now <= g.ActionTimeout) THEN "timeout"
    ELSE IF g.GameStatus # 0 THEN "status"
    ELSE IF sender # g.PlayerTurnAddress THEN "sender"
    ELSE IF ~(BitwiseAnd(g.PlayerXState, game_action(arg)) = 0
              /\ BitwiseAnd(g.PlayerOState, game_action(arg)) = 0) THEN "occupied"
    ELSE "none"

play_action_logic(g, sender, arg, now) ==
    IF play_action_asserts(g, sender, arg, now) # "none"
    THEN Reject(g, play_action_asserts(g, sender, arg, now))
    ELSE IF sender = g.PlayerXAddress THEN Approve(tie_check(player_x_move(g, arg)))
    ELSE IF sender = g.PlayerOAddress THEN Approve(tie_check(player_o_move(g, arg)))
    ELSE Reject(g, "cond")

(***************************************************************************)
(* money_refund_logic                                                      *)
(***************************************************************************)
has_x_won_by_timeout_swapped(g, now) ==
    /\ g.GameStatus = 0
    /\ now > g.ActionTimeout
    /\ g.PlayerTurnAddress = g.PlayerXAddress

has_x_won_by_timeout_inclusive(g, now) ==
    /\ g.GameStatus = 0
    /\ now >= g.ActionTimeout
    /\ g.PlayerTurnAddress = g.PlayerOAddress

has_x_won_by_timeout(g, now) ==
    /\ g.GameStatus = 0
    /\ now > g.ActionTimeout
    /\ g.PlayerTurnAddress = g.PlayerOAddress

has_o_won_by_timeout_no_clock(g, now) ==
    /\ g.GameStatus = 0
    /\ g.PlayerTurnAddress = g.PlayerXAddress

has_o_won_by_timeout(g, now) ==
    /\ g.GameStatus = 0
    /\ now > g.ActionTimeout
    /\ g.PlayerTurnAddress = g.PlayerXAddress

game_started_x_only(g) == g.PlayerXState # 0

game_started(g) == g.PlayerXState # 0 /\ g.PlayerOState # 0

has_x_won_by_playing_only(g, now) == g.GameStatus = 1 /\ game_started(g)

has_x_won(g, now) == (g.GameStatus = 1 \/ has_x_won_by_timeout(g, now)) /\ game_started(g)

has_o_won(g, now) == (g.GameStatus = 2 \/ has_o_won_by_timeout(g, now)) /\ game_started(g)

game_is_tie(g) == g.GameStatus = 3

x_withdraw_put_first(g, gtxn1) ==
    IF gtxn1.receiver # g.PlayerXAddress THEN Reject([g EXCEPT !.GameStatus = 1], "receiver1")
    ELSE IF gtxn1.amount # 2 * g.BetAmount THEN Reject([g EXCEPT !.GameStatus = 1], "amount1")
    ELSE Approve([g EXCEPT !.GameStatus = 1])

x_withdraw_clears_board(g, gtxn1) ==
    IF gtxn1.receiver # g.PlayerXAddress THEN Reject(g, "receiver1")
    ELSE IF gtxn1.amount # 2 * g.BetAmount THEN Reject(g, "amount1")
    ELSE Approve([g EXCEPT !.GameStatus = 1, !.PlayerXState = 0, !.PlayerOState = 0])

x_withdraw(g, gtxn1) ==
    IF gtxn1.receiver # g.PlayerXAddress THEN Reject(g, "receiver1")
    ELSE IF gtxn1.amount # 2 * g.BetAmount THEN Reject(g, "amount1")
    ELSE Approve([g EXCEPT !.GameStatus = 1])

o_withdraw(g, gtxn1) ==
    IF gtxn1.receiver # g.PlayerOAddress THEN Reject(g, "receiver1")
    ELSE IF gtxn1.amount # 2 * g.BetAmount THEN Reject(g, "amount1")
    ELSE Approve([g EXCEPT !.GameStatus = 2])

tie_withdraw_no_amount2(g, gtxn1, gtxn2) ==
    IF gtxn1.receiver # g.PlayerXAddress THEN Reject(g, "receiver1")
    ELSE IF gtxn1.amount # g.BetAmount THEN Reject(g, "amount1")
    ELSE IF gtxn2.type # "pay" THEN Reject(g, "type2")
    ELSE IF gtxn2.sender # g.FundsEscrowAddress THEN Reject(g, "sender2")
    ELSE IF gtxn2.receiver # g.PlayerOAddress THEN Reject(g, "receiver2")
    ELSE Approve(g)

tie_withdraw(g, gtxn1, gtxn2) ==
    IF gtxn1.receiver # g.PlayerXAddress THEN Reject(g, "receiver1")
    ELSE IF gtxn1.amount # g.BetAmount THEN Reject(g, "amount1")
    ELSE IF gtxn2.type # "pay" THEN Reject(g, "type2")
    ELSE IF gtxn2.sender # g.FundsEscrowAddress THEN Reject(g, "sender2")
    ELSE IF gtxn2.receiver # g.PlayerOAddress THEN Reject(g, "receiver2")
    ELSE IF gtxn2.amount # g.BetAmount THEN Reject(g, "amount2")
    ELSE Approve(g)

money_refund_logic(g, gtxn1, gtxn2, now) ==
    IF gtxn1.type # "pay" THEN Reject(g, "type1")
    ELSE IF gtxn1.sender # g.FundsEscrowAddress THEN Reject(g, "sender1")
    ELSE IF has_x_won(g, now) THEN x_withdraw(g, gtxn1)
    ELSE IF has_o_won(g, now) THEN o_withdraw(g, gtxn1)
    ELSE IF game_is_tie(g) THEN tie_withdraw(g, gtxn1, gtxn2)
    ELSE Reject(g, "cond")

(***************************************************************************)
(* application_start: the dispatch on the first application argument.      *)
(***************************************************************************)
application_start_any_group(g, call, now) ==
    IF call.action = "SetupPlayers"
    THEN initialize_players_logic(g, call.gtxn1, call.gtxn2, now)
    ELSE IF call.action = "ActionMove"
    THEN play_action_logic(g, call.sender, call.arg, now)
    ELSE IF call.action = "MoneyRefund"
    THEN money_refund_logic(g, call.gtxn1, call.gtxn2, now)
    ELSE Reject(g, "cond")

application_start(g, call, now) ==
    IF call.action = "SetupPlayers"
    THEN initialize_players_logic(g, call.gtxn1, call.gtxn2, now)
    ELSE IF call.action = "ActionMove" /\ call.group_size = 1
    THEN play_action_logic(g, call.sender, call.arg, now)
    ELSE IF call.action = "MoneyRefund"
    THEN money_refund_logic(g, call.gtxn1, call.gtxn2, now)
    ELSE Reject(g, "cond")

Call(action, sender, arg, group_size, gtxn1, gtxn2) ==
    [action |-> action, sender |-> sender, arg |-> arg, group_size |-> group_size,
     application_id |-> AppId, gtxn1 |-> gtxn1, gtxn2 |-> gtxn2]

(***************************************************************************)
(* game_funds_escorw: the logic signature of the escrow account.  It signs *)
(* a payment out of the escrow only inside a group it approves.            *)
(***************************************************************************)
win_refund(call) ==
    /\ call.application_id = AppId
    /\ call.gtxn1.fee <= 1000
    /\ call.gtxn1.asset_close_to = ZeroAddress
    /\ call.gtxn1.rekey_to = ZeroAddress

tie_refund(call) ==
    /\ win_refund(call)
    /\ call.gtxn2.fee <= 1000
    /\ call.gtxn2.asset_close_to = ZeroAddress
    /\ call.gtxn2.rekey_to = ZeroAddress

game_funds_escorw(call) ==
    IF call.group_size = 2 THEN win_refund(call)
    ELSE IF call.group_size = 3 THEN tie_refund(call)
    ELSE FALSE

\* Every payment of the group that the escrow account sends carries the
\* logic signature, which must approve the group.
EscrowSigned(call) ==
    \A gtxn \in {call.gtxn1, call.gtxn2} :
        (gtxn.type # "none" /\ gtxn.sender = LogicSigAccount) => game_funds_escorw(call)

GroupSize(gtxn1, gtxn2) == IF gtxn1 = NoTxn THEN 1 ELSE IF gtxn2 = NoTxn THEN 2 ELSE 3

(***************************************************************************)
(* The state machine.                                                      *)
(***************************************************************************)
SetupCalls ==
    {Call("SetupPlayers", "E", 0, 3, gtxn1, gtxn2) : gtxn1 \in SetupGtxn1, gtxn2 \in SetupGtxn2}

MoveCalls ==
    {Call("ActionMove", sender, arg, group_size, NoTxn, NoTxn) :
        sender \in Accounts, arg \in Args, group_size \in GroupSizes}

RefundCalls ==
    {Call("MoneyRefund", "A", 0, GroupSize(gtxn1, gtxn2), gtxn1, gtxn2) :
        gtxn1 \in RefundGtxn1, gtxn2 \in RefundGtxn2}

\* The group commits when the approval program and every logic signature in
\* it approve; otherwise nothing of it takes effect.
Outcome(call) ==
    IF EscrowSigned(call)
    THEN application_start(global, call, latest_timestamp)
    ELSE Reject(global, "logicsig")

Record(l, call) ==
    IF call.action = "SetupPlayers" THEN [l EXCEPT !.setups = @ + 1]
    ELSE IF call.action = "ActionMove" THEN [l EXCEPT !.moves = @ \cup {call.arg}]
    ELSE [l EXCEPT !.refunds = @ + 1]

Submit(call) ==
    LET outcome == Outcome(call)
    IN  /\ global' = outcome.global
        /\ log' = IF outcome.ok THEN Record(log, call) ELSE log

Init ==
    /\ global = app_initialization_logic
    /\ latest_timestamp = 0
    /\ log = [setups |-> 0, moves |-> {}, refunds |-> 0]
    /\ state = 0
    /\ result = Pending

SetupPlayers ==
    /\ latest_timestamp \in SetupTimes
    /\ \E call \in SetupCalls : Submit(call)
    /\ UNCHANGED <<latest_timestamp, state, result>>

ActionMove ==
    /\ \E call \in MoveCalls : Submit(call)
    /\ UNCHANGED <<latest_timestamp, state, result>>

MoneyRefund ==
    /\ log.refunds < MaxRefunds
    /\ \E call \in RefundCalls : Submit(call)
    /\ UNCHANGED <<latest_timestamp, state, result>>

Tick ==
    /\ \E t \in Times : t > latest_timestamp /\ latest_timestamp' = t
    /\ UNCHANGED <<global, log, state, result>>

Next == SetupPlayers \/ ActionMove \/ MoneyRefund \/ Tick

Spec == Init /\ [][Next]_vars

(***************************************************************************)
(* has_player_won as a function of its argument alone.                     *)
(***************************************************************************)
Masks == 0..FullBoard

InitWin ==
    /\ global = app_initialization_logic
    /\ latest_timestamp = 0
    /\ log = [setups |-> 0, moves |-> {}, refunds |-> 0]
    /\ state \in Masks
    /\ result = Pending

CheckWin ==
    /\ result = Pending
    /\ result' = <<has_player_won(state)>>
    /\ UNCHANGED <<global, latest_timestamp, log, state>>

NextWin == CheckWin

SpecWin == InitWin /\ [][NextWin]_vars

(***************************************************************************)
(* Vocabulary of the properties: the board as cells 0..8 in row-major      *)
(* order, read from a mask by arithmetic alone.  Cell p is bit 8 - p.      *)
(***************************************************************************)
Cells == 0..8

HasCell(m, p) == (m \div (2 ^ (8 - p))) % 2 = 1

CellsOf(m) == {p \in Cells : HasCell(m, p)}

Lines ==
    {{3 * r + c : c \in 0..2} : r \in 0..2}
        \cup {{3 * r + c : r \in 0..2} : c \in 0..2}
        \cup {{0, 4, 8}, {2, 4, 6}}

ContainsLine(m) == \E l \in Lines : l \subseteq CellsOf(m)

RECURSIVE MaskOf(_)
MaskOf(cells) ==
    IF cells = {} THEN 0
    ELSE LET p == CHOOSE q \in cells : TRUE IN 2 ^ (8 - p) + MaskOf(cells \ {p})

BoardIsFull == CellsOf(global.PlayerXState) \cup CellsOf(global.PlayerOState) = Cells

SetupAndRefundCalls == SetupCalls \cup RefundCalls

MoveAndRefundCalls == MoveCalls \cup RefundCalls

AllCalls == SetupCalls \cup MoveCalls \cup RefundCalls

Rejected(call) == LET outcome == Outcome(call) IN ~outcome.ok /\ outcome.global = global

WellFormedSetup == Call("SetupPlayers", "E", 0, 3, Pay("A", "E", DefaultBetAmount), Pay("B", "E", DefaultBetAmount))

\* C1: in every reachable state no cell is marked in both players' masks.
C1_MasksDisjoint ==
    /\ BitwiseAnd(global.PlayerXState, global.PlayerOState) = 0
    /\ CellsOf(global.PlayerXState) \cap CellsOf(global.PlayerOState) = {}

C1_Witness ==
    /\ BoardIsFull
    /\ global.PlayerOState # 0
    /\ log.refunds > 0

\* C2: once GameStatus is not 0 no step changes it, and every ActionMove call
\* is rejected in every such state.
C2_TerminalIsFinal ==
    /\ [](global.GameStatus # 0 => \A call \in MoveCalls : Rejected(call))
    /\ [][global.GameStatus # 0 => global'.GameStatus = global.GameStatus]_vars

C2_Witness ==
    /\ global.GameStatus = 2
    /\ log.refunds >= 2
    /\ \E call \in MoveCalls : Outcome(call).err = "status"

\* C3 (as the specification states it): a move that fills the last empty cell
\* and completes a line for the mover leaves the mover's win status, not Tie.
C3_LastCellWinIsWin ==
    [][/\ (/\ global'.PlayerXState # global.PlayerXState
           /\ BoardIsFull'
           /\ ContainsLine(global'.PlayerXState)) => global'.GameStatus = 1
       /\ (/\ global'.PlayerOState # global.PlayerOState
           /\ BoardIsFull'
           /\ ContainsLine(global'.PlayerOState)) => global'.GameStatus = 2]_vars

\* C4: a full board is never Active, and a full board without a line on
\* either side has status Tie (3).
C4_FullBoardIsTie ==
    /\ BoardIsFull => global.GameStatus # 0
    /\ (/\ BoardIsFull
        /\ ~ContainsLine(global.PlayerXState)
        /\ ~ContainsLine(global.PlayerOState)) => global.GameStatus = 3

C3_FailingInput ==
    /\ global.PlayerXState = MaskOf({0, 1, 5, 6, 2})
    /\ global.PlayerOState = MaskOf({3, 4, 7, 8})
    /\ global.GameStatus = 3

C4_Witness ==
    /\ global.PlayerXState = MaskOf({0, 2, 3, 7, 8})
    /\ global.PlayerOState = MaskOf({1, 4, 5, 6})
    /\ log.moves = Cells
    /\ global.GameStatus = 3

\* C5 (as the specification states it): a move that completes a line for the
\* mover leaves the mover's win status in the same call, and no move is
\* accepted once a mask holds a line.
C5_WinningMoveSetsWin ==
    /\ [][/\ (/\ global'.PlayerXState # global.PlayerXState
              /\ ContainsLine(global'.PlayerXState)) => global'.GameStatus = 1
          /\ (/\ global'.PlayerOState # global.PlayerOState
              /\ ContainsLine(global'.PlayerOState)) => global'.GameStatus = 2]_vars
    /\ [](ContainsLine(global.PlayerXState) \/ ContainsLine(global.PlayerOState)
            => \A call \in MoveCalls : Rejected(call))

\* C6: has_player_won answers 1 exactly for the masks that hold all three
\* cells of a row, a column or a diagonal: for each winning mask and each
\* superset of one, never for the empty mask, a single cell or a line with a
\* cell missing.
C6_WinIffLine ==
    result # Pending =>
        /\ result[1] \in {0, 1}
        /\ result[1] = 1 <=> ContainsLine(state)
        /\ (\E l \in Lines : l \subseteq CellsOf(state)) => result[1] = 1
        /\ Cardinality(CellsOf(state)) <= 1 => result[1] = 0
        /\ (\E l \in Lines : \E p \in l : CellsOf(state) = l \ {p}) => result[1] = 0

C6_Witness ==
    /\ result = <<1>>
    /\ \A i \in 1..Len(WINING_STATES) : state # WINING_STATES[i]
    /\ Cardinality(CellsOf(state)) = 4

\* C7: once a SetupPlayers call has been approved, every SetupPlayers call
\* is rejected and leaves the global state as it was; at most one is ever
\* approved.
C7_SetupSingleUse ==
    /\ log.setups <= 1
    /\ log.setups >= 1 => \A call \in SetupCalls : Rejected(call)

C7_Witness ==
    /\ log.setups = 1
    /\ global.GameStatus = 3
    /\ log.refunds >= 1
    /\ latest_timestamp > global.ActionTimeout
    /\ Outcome(WellFormedSetup).err = "setup_failed"

\* C8: an approved SetupPlayers call at time now leaves PlayerX = sender of
\* the first payment, PlayerO = sender of the second, the escrow = their
\* receiver, the turn with PlayerX, the deadline now + GameDurationInSeconds,
\* status 0 and both masks 0.
C8_SetupBinds ==
    [][log'.setups # log.setups => \A call \in SetupCalls :
          (Outcome(call).ok /\ Submit(call)) =>
              /\ global'.PlayerXAddress = call.gtxn1.sender
              /\ global'.PlayerOAddress = call.gtxn2.sender
              /\ global'.FundsEscrowAddress = call.gtxn1.receiver
              /\ global'.FundsEscrowAddress = call.gtxn2.receiver
              /\ global'.PlayerTurnAddress = global'.PlayerXAddress
              /\ global'.ActionTimeout = latest_timestamp + GameDurationInSeconds
              /\ global'.GameStatus = 0
              /\ global'.PlayerXState = 0
              /\ global'.PlayerOState = 0
              /\ global'.BetAmount = DefaultBetAmount]_vars

C8_Witness ==
    /\ log = [setups |-> 1, moves |-> {}, refunds |-> 0]
    /\ global.PlayerXAddress = "A"
    /\ global.PlayerOAddress = "B"
    /\ global.FundsEscrowAddress = "E"
    /\ global.PlayerTurnAddress = "A"
    /\ latest_timestamp = GameDurationInSeconds + 1
    /\ global.ActionTimeout = 2 * GameDurationInSeconds + 1

\* C9: a SetupPlayers bundle whose payments name different receivers, or one
\* of whose amounts is not BetAmount, is rejected and changes nothing; while
\* no setup has been approved both players are unset and a well-formed
\* bundle is approved.
MalformedSetup(call) ==
    \/ call.gtxn1.receiver # call.gtxn2.receiver
    \/ call.gtxn1.amount # global.BetAmount
    \/ call.gtxn2.amount # global.BetAmount

C9_MalformedSetupRejected ==
    /\ \A call \in SetupCalls : MalformedSetup(call) => Rejected(call)
    /\ log.setups = 0 =>
        /\ ~hasValue(global.PlayerXAddress)
        /\ ~hasValue(global.PlayerOAddress)
        /\ Outcome(WellFormedSetup).ok

C9_Witness ==
    /\ log.setups = 0
    /\ latest_timestamp > 0
    /\ \E call \in SetupCalls : Outcome(call).err = "receiver"
    /\ \E call \in SetupCalls : Outcome(call).err = "amount1"
    /\ \E call \in SetupCalls : Outcome(call).err = "amount2"
    /\ Outcome(WellFormedSetup).ok

\* C10: once an ActionMove on a position has been approved, every ActionMove
\* on that position, by any sender, is rejected and changes no mask.
C10_OccupiedCellRejected ==
    \A call \in MoveCalls : call.arg \in log.moves => Rejected(call)

C10_Witness ==
    /\ global.GameStatus = 0
    /\ global.PlayerXState # 0
    /\ global.PlayerOState # 0
    /\ \E call \in MoveCalls :
          /\ call.arg \in log.moves
          /\ call.sender = global.PlayerTurnAddress
          /\ Outcome(call).err = "occupied"

\* The cell of position p is free on the current board.
FreeCell(p) == ~HasCell(global.PlayerXState, p) /\ ~HasCell(global.PlayerOState, p)

\* C11: an ActionMove is approved only when its sender is the address stored
\* in PlayerTurnAddress; a call by the other player or by a third account is
\* rejected and changes nothing, and a step that changes a player's mask is
\* an approved move made while the turn named that player.
C11_OnlyTurnPlayerMoves ==
    /\ [](\A call \in MoveCalls :
            call.sender # global.PlayerTurnAddress => Rejected(call))
    /\ [][/\ global'.PlayerXState # global.PlayerXState =>
                /\ log'.moves # log.moves
                /\ global.PlayerTurnAddress = global.PlayerXAddress
          /\ global'.PlayerOState # global.PlayerOState =>
                /\ log'.moves # log.moves
                /\ global.PlayerTurnAddress = global.PlayerOAddress]_vars

C11_Witness ==
    /\ global.GameStatus = 0
    /\ latest_timestamp <= global.ActionTimeout
    /\ global.PlayerXAddress # global.PlayerOAddress
    /\ global.PlayerTurnAddress = global.PlayerOAddress
    /\ global.PlayerXState # 0
    /\ global.PlayerOState # 0
    /\ \E call \in MoveCalls :
          /\ call.sender = global.PlayerXAddress
          /\ call.group_size = 1
          /\ call.arg \in Cells
          /\ FreeCell(call.arg)
          /\ Outcome(call).err = "sender"
    /\ \E call \in MoveCalls :
          /\ call.sender \notin {global.PlayerXAddress, global.PlayerOAddress}
          /\ call.group_size = 1
          /\ call.arg \in Cells
          /\ FreeCell(call.arg)
          /\ Outcome(call).err = "sender"

\* A move that nothing but the clock can stop: sent alone by the player whose
\* turn it is, on a free cell of an active game.
LegalMove(call) ==
    /\ call.group_size = 1
    /\ call.sender = global.PlayerTurnAddress
    /\ call.arg \in Cells
    /\ FreeCell(call.arg)
    /\ global.GameStatus = 0

\* C12: when latest_timestamp > ActionTimeout every ActionMove is rejected,
\* whoever sends it and whatever position it names; when latest_timestamp =
\* ActionTimeout in a set-up game an otherwise legal move is approved.
C12_DeadlineInclusive ==
    /\ latest_timestamp > global.ActionTimeout =>
          \A call \in MoveCalls : Rejected(call)
    /\ (log.setups > 0 /\ latest_timestamp = global.ActionTimeout) =>
          \A call \in MoveCalls : LegalMove(call) => Outcome(call).ok

C12_Witness ==
    /\ log.setups > 0
    /\ latest_timestamp > global.ActionTimeout
    /\ global.PlayerXState # 0
    /\ \E call \in MoveCalls : LegalMove(call) /\ Outcome(call).err = "timeout"

\* C13: an ActionMove whose argument is not one of 0..8 is rejected and
\* changes nothing, and both masks stay within 0..511 in every reachable
\* state.
C13_PositionInRange ==
    /\ \A call \in MoveCalls : call.arg \notin Cells => Rejected(call)
    /\ global.PlayerXState \in 0..FullBoard
    /\ global.PlayerOState \in 0..FullBoard

C13_Witness ==
    /\ global.GameStatus = 0
    /\ latest_timestamp <= global.ActionTimeout
    /\ global.PlayerXState # 0
    /\ global.PlayerOState # 0
    /\ \E call \in MoveCalls :
          /\ call.group_size = 1
          /\ call.sender = global.PlayerTurnAddress
          /\ call.arg \notin Cells
          /\ Outcome(call).err = "position"

\* Mask m with bit b set.
WithBit(m, b) == IF (m \div (2 ^ b)) % 2 = 1 THEN m ELSE m + 2 ^ b

\* The player whose branch of play_action_logic an approved move takes.
MoverIsX(call) == call.sender = global.PlayerXAddress

\* C14 as stated: an approved ActionMove on position p sets bit p, and no
\* other bit, in the mover's mask and leaves the other mask unchanged.
C14_SetsBitOfPosition ==
    \A call \in MoveCalls :
        LET outcome == Outcome(call)
        IN  outcome.ok =>
              IF MoverIsX(call)
              THEN /\ outcome.global.PlayerXState = WithBit(global.PlayerXState, call.arg)
                   /\ outcome.global.PlayerOState = global.PlayerOState
              ELSE /\ outcome.global.PlayerOState = WithBit(global.PlayerOState, call.arg)
                   /\ outcome.global.PlayerXState = global.PlayerXState

\* C14: an approved ActionMove on position p sets bit 8 - p, which was
\* clear, and no other bit, in the mover's mask and leaves the other mask
\* unchanged.
C14_SetsBitOfMirroredPosition ==
    \A call \in MoveCalls :
        LET outcome == Outcome(call)
        IN  outcome.ok =>
              IF MoverIsX(call)
              THEN /\ outcome.global.PlayerXState = WithBit(global.PlayerXState, 8 - call.arg)
                   /\ outcome.global.PlayerXState # global.PlayerXState
                   /\ outcome.global.PlayerOState = global.PlayerOState
              ELSE /\ outcome.global.PlayerOState = WithBit(global.PlayerOState, 8 - call.arg)
                   /\ outcome.global.PlayerOState # global.PlayerOState
                   /\ outcome.global.PlayerXState = global.PlayerXState

C14_Witness ==
    /\ log.moves = {0, 1}
    /\ global.PlayerXState = 256
    /\ global.PlayerOState = 128

\* C15: every step of an approved ActionMove, a winning or tying one
\* included, moves PlayerTurnAddress from the mover, who had the turn, to the
\* other player (a different address when the players are distinct); every
\* other step but the approved setup, rejected calls and refunds included,
\* leaves PlayerTurnAddress unchanged.
C15_TurnFlipsOnEveryMove ==
    [][IF log'.moves # log.moves
       THEN /\ global'.PlayerTurnAddress =
                 IF global.PlayerTurnAddress = global.PlayerXAddress
                 THEN global.PlayerOAddress
                 ELSE global.PlayerXAddress
            /\ global.PlayerXAddress # global.PlayerOAddress =>
                 global'.PlayerTurnAddress # global.PlayerTurnAddress
       ELSE log'.setups = log.setups =>
                 global'.PlayerTurnAddress = global.PlayerTurnAddress]_vars

C15_Witness ==
    /\ global.GameStatus = 1
    /\ ContainsLine(global.PlayerXState)
    /\ log.refunds = 0
    /\ global.PlayerXAddress # global.PlayerOAddress
    /\ global.PlayerTurnAddress = global.PlayerOAddress

\* C16: ActionTimeout is written by the one approved SetupPlayers, to the
\* time of that call plus GameDurationInSeconds; no other step, whether a
\* further SetupPlayers call, an ActionMove or a MoneyRefund, approved or
\* rejected, changes it.
C16_DeadlineWrittenOnce ==
    [][IF log'.setups # log.setups
       THEN /\ log.setups = 0
            /\ global'.ActionTimeout = latest_timestamp + GameDurationInSeconds
       ELSE global'.ActionTimeout = global.ActionTimeout]_vars

C16_Witness ==
    /\ log.setups = 1
    /\ log.moves # {}
    /\ log.refunds = 1
    /\ global.GameStatus = 1
    /\ latest_timestamp = GameDurationInSeconds + 1
    /\ global.ActionTimeout = 2 * GameDurationInSeconds + 1

\* A payment of the given amount out of the escrow to the given receiver.
Payout(gtxn, receiver, amount) ==
    /\ gtxn.type = "pay"
    /\ gtxn.sender = global.FundsEscrowAddress
    /\ gtxn.receiver = receiver
    /\ gtxn.amount = amount

\* C17: when GameStatus is 1 (resp. 2) a MoneyRefund bundle is approved if
\* and only if its payment Gtxn[1] goes from the escrow to PlayerXAddress
\* (resp. PlayerOAddress) with amount 2 * BetAmount.
C17_WinnerPayout ==
    /\ global.GameStatus = 1 =>
          \A call \in RefundCalls :
              Outcome(call).ok <=>
                  Payout(call.gtxn1, global.PlayerXAddress, 2 * global.BetAmount)
    /\ global.GameStatus = 2 =>
          \A call \in RefundCalls :
              Outcome(call).ok <=>
                  Payout(call.gtxn1, global.PlayerOAddress, 2 * global.BetAmount)

\* C18: while one player is entitled to the whole pot (GameStatus 1 or 2, or
\* an active game past its deadline), a MoneyRefund bundle that carries a
\* second payment out of the escrow as Gtxn[2] is rejected.
C18_OnePayoutOnly ==
    (global.GameStatus \in {1, 2}
        \/ (global.GameStatus = 0 /\ latest_timestamp > global.ActionTimeout)) =>
        \A call \in RefundCalls :
            (call.gtxn2.type = "pay" /\ call.gtxn2.sender = global.FundsEscrowAddress) =>
                ~Outcome(call).ok

\* C19 as stated: when GameStatus is 3 a MoneyRefund bundle is approved if
\* and only if it carries two escrow payments of BetAmount, one to
\* PlayerXAddress and one to PlayerOAddress, in either order.
C19_TiePayoutsAnyOrder ==
    global.GameStatus = 3 =>
        \A call \in RefundCalls :
            Outcome(call).ok <=>
                \/ /\ Payout(call.gtxn1, global.PlayerXAddress, global.BetAmount)
                   /\ Payout(call.gtxn2, global.PlayerOAddress, global.BetAmount)
                \/ /\ Payout(call.gtxn1, global.PlayerOAddress, global.BetAmount)
                   /\ Payout(call.gtxn2, global.PlayerXAddress, global.BetAmount)

\* C19: when GameStatus is 3 a MoneyRefund bundle is approved if and only if
\* Gtxn[1] is an escrow payment of BetAmount to PlayerXAddress and Gtxn[2]
\* an escrow payment of BetAmount to PlayerOAddress, in that order.
C19_TiePayoutsInOrder ==
    global.GameStatus = 3 =>
        \A call \in RefundCalls :
            Outcome(call).ok <=>
                /\ Payout(call.gtxn1, global.PlayerXAddress, global.BetAmount)
                /\ Payout(call.gtxn2, global.PlayerOAddress, global.BetAmount)

C19_Witness ==
    /\ global.GameStatus = 3
    /\ BoardIsFull
    /\ log.refunds = 1
    /\ \E call \in RefundCalls :
          /\ Payout(call.gtxn1, global.PlayerOAddress, global.BetAmount)
          /\ Payout(call.gtxn2, global.PlayerXAddress, global.BetAmount)
          /\ Outcome(call).err = "receiver1"
    /\ \E call \in RefundCalls : Outcome(call).ok

\* C20: in an active game past its deadline in which both players have
\* moved, with the turn on O (resp. X), a MoneyRefund bundle whose Gtxn[1]
\* pays 2 * BetAmount from the escrow to PlayerXAddress (resp.
\* PlayerOAddress) is approved and sets GameStatus to 1 (resp. 2) and nothing
\* else, and a bundle whose Gtxn[1] pays the player whose turn it is is
\* rejected.
C20_TimeoutForfeit ==
    (/\ global.GameStatus = 0
     /\ latest_timestamp > global.ActionTimeout
     /\ global.PlayerXState # 0
     /\ global.PlayerOState # 0) =>
        \A call \in RefundCalls :
            LET outcome == Outcome(call)
            IN  /\ global.PlayerTurnAddress = global.PlayerOAddress =>
                      /\ Payout(call.gtxn1, global.PlayerXAddress, 2 * global.BetAmount) =>
                            /\ outcome.ok
                            /\ outcome.global = [global EXCEPT !.GameStatus = 1]
                      /\ call.gtxn1.receiver = global.PlayerOAddress =>
                            ~outcome.ok /\ outcome.global = global
                /\ global.PlayerTurnAddress = global.PlayerXAddress =>
                      /\ Payout(call.gtxn1, global.PlayerOAddress, 2 * global.BetAmount) =>
                            /\ outcome.ok
                            /\ outcome.global = [global EXCEPT !.GameStatus = 2]
                      /\ call.gtxn1.receiver = global.PlayerXAddress =>
                            ~outcome.ok /\ outcome.global = global

C20_Witness ==
    /\ global.GameStatus = 1
    /\ ~ContainsLine(global.PlayerXState)
    /\ global.PlayerOState # 0
    /\ global.PlayerTurnAddress = global.PlayerOAddress
    /\ latest_timestamp > global.ActionTimeout
    /\ log.refunds = 1

C22_NoRefundWhileRunning ==
    (global.GameStatus = 0 /\ latest_timestamp <= global.ActionTimeout) =>
        \A call \in RefundCalls : Rejected(call)

C22_Witness ==
    /\ global.GameStatus = 0
    /\ latest_timestamp = global.ActionTimeout
    /\ global.PlayerXState # 0
    /\ global.PlayerOState # 0
    /\ global.PlayerTurnAddress = global.PlayerXAddress
    /\ \E call \in RefundCalls :
          /\ Payout(call.gtxn1, global.PlayerOAddress, 2 * global.BetAmount)
          /\ Outcome(call).err = "cond"
    /\ \E call \in RefundCalls :
          /\ Payout(call.gtxn1, global.PlayerXAddress, global.BetAmount)
          /\ Payout(call.gtxn2, global.PlayerOAddress, global.BetAmount)
          /\ Outcome(call).err = "cond"

\* C23: once a MoneyRefund bundle has been approved, every later MoneyRefund
\* bundle is rejected.
C23_RefundNotRepeated ==
    log.refunds > 0 => \A call \in RefundCalls : ~Outcome(call).ok

C25_RefundWritesStatusOnly ==
    \A call \in RefundCalls :
        LET outcome == Outcome(call)
        IN  outcome.ok =>
              /\ outcome.global.GameStatus \in {1, 2, 3}
              /\ outcome.global = [global EXCEPT !.GameStatus = outcome.global.GameStatus]
              /\ global.GameStatus = 3 => outcome.global = global

C25_Witness ==
    /\ log.refunds = 1
    /\ global.GameStatus = 1
    /\ ~ContainsLine(global.PlayerXState)
    /\ global.PlayerXState # 0
    /\ global.PlayerOState # 0
    /\ global.PlayerTurnAddress = global.PlayerOAddress
    /\ global.ActionTimeout = GameDurationInSeconds
    /\ global.PlayerXAddress = "A"
    /\ global.PlayerOAddress = "B"
    /\ global.FundsEscrowAddress = "E"
    /\ global.BetAmount = DefaultBetAmount

\* C26: before the approved SetupPlayers the three addresses are unset;
\* after it no step, whether a SetupPlayers, ActionMove or MoneyRefund call,
\* changes PlayerXAddress, PlayerOAddress, FundsEscrowAddress or BetAmount.
C26_PlayersBoundOnce ==
    /\ [](IF log.setups = 0
          THEN /\ ~hasValue(global.PlayerXAddress)
               /\ ~hasValue(global.PlayerOAddress)
               /\ ~hasValue(global.FundsEscrowAddress)
          ELSE /\ hasValue(global.PlayerXAddress)
               /\ hasValue(global.PlayerOAddress)
               /\ hasValue(global.FundsEscrowAddress))
    /\ [][log.setups > 0 =>
            /\ global'.PlayerXAddress = global.PlayerXAddress
            /\ global'.PlayerOAddress = global.PlayerOAddress
            /\ global'.FundsEscrowAddress = global.FundsEscrowAddress
            /\ global'.BetAmount = global.BetAmount]_vars

C26_Witness ==
    /\ log.setups = 1
    /\ log.moves # {}
    /\ log.refunds > 0
    /\ global.PlayerXAddress = "A"
    /\ global.PlayerOAddress = "B"
    /\ global.FundsEscrowAddress = "E"
    /\ global.BetAmount = DefaultBetAmount

\* C27 as stated: after an approved ActionMove that leaves GameStatus at 1,
\* 2 or 3, PlayerTurnAddress still names the sender of that move.
C27_TurnStaysOnFinalMove ==
    global.PlayerXAddress # global.PlayerOAddress =>
        \A call \in MoveCalls :
            LET outcome == Outcome(call)
            IN  (outcome.ok /\ outcome.global.GameStatus # 0) =>
                    outcome.global.PlayerTurnAddress = call.sender

\* C27: an approved ActionMove that leaves GameStatus at 1, 2 or 3 flips the
\* turn like any other move: afterwards PlayerTurnAddress names the opponent
\* of the sender and, the players being distinct, not the sender.
C27_TurnFlipsOnFinalMove ==
    global.PlayerXAddress # global.PlayerOAddress =>
        \A call \in MoveCalls :
            LET outcome == Outcome(call)
            IN  (outcome.ok /\ outcome.global.GameStatus # 0) =>
                    /\ outcome.global.PlayerTurnAddress # call.sender
                    /\ outcome.global.PlayerTurnAddress \in
                          {global.PlayerXAddress, global.PlayerOAddress}

C27_Witness ==
    /\ global.GameStatus = 2
    /\ ContainsLine(global.PlayerOState)
    /\ log.refunds = 0
    /\ global.PlayerXAddress # global.PlayerOAddress
    /\ global.PlayerTurnAddress = global.PlayerXAddress

(***************************************************************************)
(* The escrow account on its own: bundles that spend from it, submitted to *)
(* the deployed application around its setup.  Gtxn[0] of a bundle is an   *)
(* application call with an OnComplete action; a ClearState call runs      *)
(* clear_program instead of approval_program and needs its sender to have  *)
(* opted in, which any approved call with OnComplete OptIn does.  In this  *)
(* specification `state` is the set of opted-in accounts and `result` the  *)
(* last bundle submitted with its fate.                                    *)
(***************************************************************************)
OnCompletes == {"NoOp", "OptIn", "ClearState"}

Bundle(call, on_completion) == [call |-> call, on_completion |-> on_completion]

clear_program == TRUE

approval_program(g, call, now) == application_start(g, call, now)

application_call(g, bundle, now, opted) ==
    IF bundle.call.application_id # AppId
    THEN Reject(g, "other_app")
    ELSE IF bundle.on_completion = "ClearState"
    THEN IF bundle.call.sender \in opted /\ clear_program
         THEN Approve(g) ELSE Reject(g, "clear")
    ELSE IF bundle.on_completion = "OptIn" /\ bundle.call.sender \in opted
    THEN Reject(g, "optin")
    ELSE approval_program(g, bundle.call, now)

BundleOutcome(bundle) ==
    IF EscrowSigned(bundle.call)
    THEN application_call(global, bundle, latest_timestamp, state)
    ELSE Reject(global, "logicsig")

EscrowPayments ==
    {Pay("E", "A", 2 * DefaultBetAmount),
     [Pay("E", "A", 2 * DefaultBetAmount) EXCEPT !.fee = 1001],
     [Pay("E", "A", 2 * DefaultBetAmount) EXCEPT !.rekey_to = "A"],
     [Pay("E", "A", 2 * DefaultBetAmount) EXCEPT !.asset_close_to = "A"]}

EscrowSetupBundles ==
    {Bundle(Call("SetupPlayers", "A", 0, 3, gtxn1, gtxn2), on_completion) :
        gtxn1 \in {Pay("A", "E", DefaultBetAmount), Pay("E", "B", DefaultBetAmount)},
        gtxn2 \in {Pay("B", "E", DefaultBetAmount), Pay("B", "B", DefaultBetAmount)},
        on_completion \in {"NoOp", "OptIn"}}

EscrowSpendBundles ==
    {Bundle([Call(action, "A", 0, group_size, gtxn1, gtxn2) EXCEPT !.application_id = id],
            on_completion) :
        action \in {"ActionMove", "MoneyRefund"},
        group_size \in {2, 3, 4},
        gtxn1 \in EscrowPayments,
        gtxn2 \in {NoTxn, Pay("E", "B", DefaultBetAmount)},
        id \in {AppId, "other"},
        on_completion \in OnCompletes}

EscrowBundles == EscrowSetupBundles \cup EscrowSpendBundles

InitEscrow ==
    /\ global = app_initialization_logic
    /\ latest_timestamp = 0
    /\ log = [setups |-> 0, moves |-> {}, refunds |-> 0]
    /\ state = {}
    /\ result = Pending

SubmitBundle ==
    /\ \E bundle \in EscrowBundles :
          LET outcome == BundleOutcome(bundle)
          IN  /\ global' = outcome.global
              /\ log' = IF outcome.ok /\ bundle.on_completion # "ClearState"
                        THEN Record(log, bundle.call) ELSE log
              /\ state' = IF ~outcome.ok THEN state
                          ELSE IF bundle.on_completion = "OptIn"
                          THEN state \cup {bundle.call.sender}
                          ELSE IF bundle.on_completion = "ClearState"
                          THEN state \ {bundle.call.sender}
                          ELSE state
              /\ result' = <<bundle, outcome.ok>>
    /\ UNCHANGED latest_timestamp

NextEscrow == SubmitBundle

SpecEscrow == InitEscrow /\ [][NextEscrow]_vars

\* The bundle holds a payment sent by the escrow account.
SpendsEscrow(call) ==
    \E gtxn \in {call.gtxn1, call.gtxn2} :
        gtxn.type = "pay" /\ gtxn.sender = LogicSigAccount

\* C28: a bundle that spends from the escrow commits only if it has 2 or 3
\* transactions, Gtxn[0] calls this application, every escrow payment has a
\* fee of at most 1000 and no rekey, and Gtxn[0] is an approved MoneyRefund
\* call of the application.
C28_EscrowPaysOnlyOnRefund ==
    (result # Pending /\ result[2] /\ SpendsEscrow(result[1].call)) =>
        /\ result[1].call.group_size \in {2, 3}
        /\ result[1].call.application_id = AppId
        /\ \A gtxn \in {result[1].call.gtxn1, result[1].call.gtxn2} :
              gtxn.fee <= 1000 /\ gtxn.rekey_to = ZeroAddress
        /\ result[1].call.action = "MoneyRefund"
        /\ result[1].on_completion # "ClearState"

\* C29: an ActionMove call inside a group of more than one transaction is
\* rejected and changes nothing, whoever sends it and whatever cell it
\* names.
C29_MoveOnlyAlone ==
    \A call \in MoveCalls : call.group_size # 1 => Rejected(call)

C29_Witness ==
    /\ global.GameStatus = 0
    /\ latest_timestamp <= global.ActionTimeout
    /\ global.PlayerXState # 0
    /\ \E call \in MoveCalls :
          /\ call.group_size > 1
          /\ call.sender = global.PlayerTurnAddress
          /\ call.arg \in Cells
          /\ FreeCell(call.arg)
          /\ Outcome(call).err = "cond"
          /\ Outcome([call EXCEPT !.group_size = 1]).ok

\* C30: while no SetupPlayers has been approved the global state is the one
\* written at creation (masks 0, status 0, addresses unset) and every
\* ActionMove and every MoneyRefund call is rejected.
C30_NothingBeforeSetup ==
    log.setups = 0 =>
        /\ global.PlayerXState = 0
        /\ global.PlayerOState = 0
        /\ global.GameStatus = 0
        /\ ~hasValue(global.PlayerTurnAddress)
        /\ \A call \in MoveAndRefundCalls : Rejected(call)

C30_Witness ==
    /\ log.setups = 0
    /\ latest_timestamp = global.ActionTimeout
    /\ \E call \in MoveCalls :
          /\ call.group_size = 1
          /\ call.arg \in Cells
          /\ Outcome(call).err = "sender"
    /\ \E call \in RefundCalls :
          /\ call.gtxn1.type = "pay"
          /\ call.gtxn1.sender = LogicSigAccount
          /\ Outcome(call).err = "sender1"

(***************************************************************************)
(* The match under a clock that keeps advancing.  Block timestamps grow    *)
(* whatever the players do, so the clock step is weakly fair; LiveTimes    *)
(* holds a time beyond the deadline of a match set up at either setup      *)
(* time.  No fairness is assumed of the players' calls.                    *)
(***************************************************************************)
LiveTimes == Times \cup {2 * GameDurationInSeconds + 2}

TickLive ==
    /\ \E t \in LiveTimes : t > latest_timestamp /\ latest_timestamp' = t
    /\ UNCHANGED <<global, log, state, result>>

NextLive == SetupPlayers \/ ActionMove \/ MoneyRefund \/ TickLive

SpecLive == Init /\ [][NextLive]_vars /\ WF_vars(TickLive)

\* Some MoneyRefund bundle would be approved in the current state.
Settleable == \E call \in RefundCalls : Outcome(call).ok

\* The match is over: its status is terminal or its deadline has passed.
MatchOver == global.GameStatus # 0 \/ latest_timestamp > global.ActionTimeout

EscrowPaid(call) ==
    (IF call.gtxn1.type = "pay" /\ call.gtxn1.sender = global.FundsEscrowAddress
     THEN call.gtxn1.amount ELSE 0)
        + (IF call.gtxn2.type = "pay" /\ call.gtxn2.sender = global.FundsEscrowAddress
           THEN call.gtxn2.amount ELSE 0)

MoneyRefundPaid ==
    /\ log.refunds < MaxRefunds
    /\ \E call \in RefundCalls :
          /\ Submit(call)
          /\ state' = IF Outcome(call).ok THEN state + EscrowPaid(call) ELSE state
    /\ UNCHANGED <<latest_timestamp, result>>

NextPaid == SetupPlayers \/ ActionMove \/ MoneyRefundPaid \/ Tick

SpecPaid == Init /\ [][NextPaid]_vars

\* C32 (as the specification states it): the total amount the approved
\* MoneyRefund bundles have paid out of the escrow never exceeds the two
\* stakes, 2 * BetAmount.
C32_PayoutWithinPool ==
    state <= 2 * global.BetAmount

C32_FailingInput ==
    /\ log.refunds = 1
    /\ global.GameStatus = 1
    /\ state = 3 * global.BetAmount

\* C33 (as the specification states it): after the approved SetupPlayers
\* PlayerXAddress and PlayerOAddress are different accounts, and a
\* SetupPlayers bundle whose two payments have the same sender is rejected.
C33_PlayersDistinct ==
    /\ log.setups > 0 => global.PlayerXAddress # global.PlayerOAddress
    /\ \A call \in SetupCalls :
          (/\ call.gtxn1.type = "pay"
           /\ call.gtxn2.type = "pay"
           /\ call.gtxn1.sender = call.gtxn2.sender) => Rejected(call)

C33_FailingInput ==
    /\ log.setups = 1
    /\ global.PlayerXAddress = "A"
    /\ global.PlayerOAddress = "A"
    /\ global.PlayerXState = MaskOf({0, 1, 2})
    /\ global.PlayerOState = 0
    /\ global.GameStatus = 1

\* The number of cells marked in mask m.
Popcount(m) == Cardinality(CellsOf(m))

\* C34: once the players are set up as two different accounts, the number of
\* cells in PlayerXState minus the number in PlayerOState is 0 or 1; it is 0
\* exactly when PlayerTurnAddress is PlayerXAddress and 1 exactly when it is
\* PlayerOAddress.  X moves first and nobody moves twice in a row.
C34_CountsTrackTurn ==
    (log.setups > 0 /\ global.PlayerXAddress # global.PlayerOAddress) =>
        LET d == Popcount(global.PlayerXState) - Popcount(global.PlayerOState)
        IN  /\ d \in {0, 1}
            /\ d = 0 <=> global.PlayerTurnAddress = global.PlayerXAddress
            /\ d = 1 <=> global.PlayerTurnAddress = global.PlayerOAddress
            /\ Popcount(global.PlayerXState) + Popcount(global.PlayerOState)
                  = Cardinality(log.moves)

C34_Witness ==
    /\ global.PlayerXAddress = "A"
    /\ global.PlayerOAddress = "B"
    /\ Popcount(global.PlayerXState) = 3
    /\ Popcount(global.PlayerOState) = 2
    /\ global.GameStatus = 0
    /\ global.PlayerTurnAddress = "B"
    /\ log.refunds = 0

\* C35: in every reachable state at most one of PlayerXState and
\* PlayerOState holds a winning line, and while no MoneyRefund has been
\* approved GameStatus 1 implies that PlayerXState holds a line and
\* GameStatus 2 that PlayerOState holds one.
C35_OneWinnerAtMost ==
    /\ ~(ContainsLine(global.PlayerXState) /\ ContainsLine(global.PlayerOState))
    /\ ~(has_player_won(global.PlayerXState) = 1 /\ has_player_won(global.PlayerOState) = 1)
    /\ log.refunds = 0 =>
          /\ global.GameStatus = 1 => ContainsLine(global.PlayerXState)
          /\ global.GameStatus = 2 => ContainsLine(global.PlayerOState)

C35_Witness ==
    /\ log.refunds = 0
    /\ global.GameStatus = 2
    /\ ContainsLine(global.PlayerOState)
    /\ ~ContainsLine(global.PlayerXState)
    /\ Popcount(global.PlayerXState) = 4
    /\ Popcount(global.PlayerOState) = 4

\* Some ActionMove would be approved in the current state.
MoveEnabled == \E call \in MoveCalls : Outcome(call).ok

\* The players keep moving: whenever an ActionMove stays approvable, one is
\* eventually approved.
PlayersKeepMoving ==
    []<>(~MoveEnabled) \/ []<><<log'.moves # log.moves>>_vars

\* C36: at most 9 ActionMove calls are ever approved, each on a position not
\* approved before and each marking one more cell; after the 9th GameStatus
\* is not 0; and when the players keep moving, every set-up match reaches a
\* non-zero GameStatus unless its deadline passes first.
C36_NineMovesAtMost ==
    /\ [](/\ Cardinality(log.moves) <= 9
          /\ Cardinality(log.moves) = 9 => global.GameStatus # 0
          /\ Popcount(global.PlayerXState) + Popcount(global.PlayerOState)
                = Cardinality(log.moves)
          /\ \A call \in MoveCalls : Outcome(call).ok => call.arg \notin log.moves)
    /\ PlayersKeepMoving =>
          ((log.setups > 0) ~>
              (global.GameStatus # 0 \/ latest_timestamp > global.ActionTimeout))

C36_Witness ==
    /\ Cardinality(log.moves) = 9
    /\ global.GameStatus # 0
    /\ latest_timestamp = 0
    /\ log.refunds = 0
    /\ \A call \in MoveCalls : Rejected(call)

\* C37: in no reachable state are an ActionMove and a timeout MoneyRefund
\* both approvable.  While some ActionMove would be approved no MoneyRefund
\* bundle is approved; and a MoneyRefund approved while GameStatus is 0 (a
\* timeout refund) needs latest_timestamp > ActionTimeout, where every
\* ActionMove is rejected.
C37_MoveXorTimeoutRefund ==
    /\ MoveEnabled => ~Settleable
    /\ (global.GameStatus = 0 /\ Settleable) =>
          /\ latest_timestamp > global.ActionTimeout
          /\ ~MoveEnabled

C37_Witness ==
    /\ global.GameStatus = 0
    /\ latest_timestamp = global.ActionTimeout
    /\ game_started(global)
    /\ global.PlayerTurnAddress = global.PlayerOAddress
    /\ global.PlayerXAddress # global.PlayerOAddress
    /\ MoveEnabled
    /\ \E call \in RefundCalls :
          /\ Payout(call.gtxn1, global.PlayerXAddress, 2 * global.BetAmount)
          /\ call.gtxn2 = NoTxn
          /\ Outcome(call).err = "cond"

(***************************************************************************)
(* has_player_won of src/src/smart_contracts/different_state_asc1.py, the  *)
(* second variant of the contract, next to has_player_won of               *)
(* tic_tac_toe_asc1.py.  In this specification `result` is the pair of     *)
(* their answers for the mask `state`.                                     *)
(***************************************************************************)
different_state_has_player_won(s) ==
    IF \/ s = WINING_STATES[1]
       \/ s = WINING_STATES[2]
       \/ s = WINING_STATES[3]
       \/ s = WINING_STATES[4]
       \/ s = WINING_STATES[5]
       \/ s = WINING_STATES[6]
       \/ s = WINING_STATES[7]
       \/ s = WINING_STATES[8]
    THEN 1 ELSE 0

InitVariants ==
    /\ global = app_initialization_logic
    /\ latest_timestamp = 0
    /\ log = [setups |-> 0, moves |-> {}, refunds |-> 0]
    /\ state \in Masks
    /\ result = Pending

CheckVariants ==
    /\ result = Pending
    /\ result' = <<has_player_won(state), different_state_has_player_won(state)>>
    /\ UNCHANGED <<global, latest_timestamp, log, state>>

NextVariants == CheckVariants

SpecVariants == InitVariants /\ [][NextVariants]_vars

\* C38 (as the specification states it): for every 9-bit mask,
\* has_player_won of different_state_asc1 answers what has_player_won of
\* tic_tac_toe_asc1 answers.
C38_VariantsAgree ==
    result # Pending => result[1] = result[2]

C38_FailingInput ==
    /\ state = MaskOf({0, 1, 2, 8})
    /\ result = <<1, 0>>

====
